---- MODULE Spec2Model ----
(***************************************************************************)
(* spurilo: the track-reduction and statistics pipeline of `open`.         *)
(*                                                                         *)
(* The two library files (src/src/lib.rs and crates/spurilo/src/lib.rs)    *)
(* hold the same waypoint scan; they differ in the elevation threshold     *)
(* (3.0 and 30.0) and in the simplification routine they call.  The scan   *)
(* is modelled once, with the elevation threshold fixed at the start of a  *)
(* run to one of the two values.  The simplification is the area-based     *)
(* elimination (simplifyvw, epsilon 300) of crates/spurilo/src/lib.rs; the *)
(* routine itself belongs to the geo crate and is written from section 4.4 *)
(* of the specification.                                                   *)
(*                                                                         *)
(* The nested loops `for track in tracks / for segment in track.segments`  *)
(* visit the segments of all tracks in order; the input is modelled as     *)
(* that flat sequence of segments, read one waypoint at a time.            *)
(*                                                                         *)
(* Option<T> is modelled as a sequence of length 0 (None) or 1 (Some).     *)
(* Lengths are integers (metres); f64 rounding and NaN are not modelled.   *)
(* Waypoints lie on one meridian, two metres apart, so that geodesic       *)
(* distances fall on both sides of the 3 m threshold.                      *)
(***************************************************************************)
EXTENDS Integers, Sequences, FiniteSets

\* ---------------------------------------------------------------- bounds
MaxWaypoints == 3
MaxProfile == 3

\* ------------------------------------------------------- program constants
DistanceThreshold == 3
ElevationThresholdRoot == 3
ElevationThresholdCrate == 30
SimplifyEpsilon == 300

\* ------------------------------------------------------------ input values
Positions == {0, 1, 2}
Elevations == {<<>>, <<0>>, <<4>>}
TimedElevations == {<<0>>}
\* Outcome of one lookup: "error" is a failed request, a response that does
\* not parse, or one without a feature carrying properties.
Outcomes == {"error", "found"}
ProfileXs == {0, 10, 20}
ProfileYs == {0, 5, 50}
Epsilons == {0, 10, 60, SimplifyEpsilon}

None == <<>>
Some(v) == <<v>>
IsSome(o) == o # <<>>
Unwrap(o) == o[1]

Abs(n) == IF n < 0 THEN -n ELSE n
Last(s) == s[Len(s)]

VARIABLES
    pc,                 \* "start" | "scan" | "done" | "panicked"
    elevation_threshold,
    datetime,           \* info.datetime : Option
    location,           \* info.location : Option
    distance,           \* info.distance
    uphill,             \* info.uphill
    downhill,           \* info.downhill
    previous_waypoint,  \* Option: the previous kept waypoint of the segment
    current_waypoint,   \* Option: the candidate of the last loop iteration
    elevation_shape,    \* Vec<Coordinate>: sequence of <<x, y>>
    simplified,         \* the simplified line string
    simpl_up,
    simpl_down,
    requests,           \* reverse-geocoding requests issued so far
    input               \* the segments read so far, each a sequence of waypoints

vars == <<pc, elevation_threshold, datetime, location, distance, uphill,
          downhill, previous_waypoint, current_waypoint, elevation_shape,
          simplified, simpl_up, simpl_down, requests, input>>

\* --------------------------------------------------------------- helpers

RECURSIVE CountWaypoints(_)
CountWaypoints(segs) ==
    IF segs = <<>> THEN 0 ELSE Len(Head(segs)) + CountWaypoints(Tail(segs))

\* The waypoint read next: timestamps, when present, increase along the file.
Waypoint(p, e, hasTime) ==
    [pos |-> p, elevation |-> e,
     time |-> IF hasTime THEN Some(CountWaypoints(input) + 1) ELSE None]

\* geodesic_distance between two points of the meridian, in metres
Geodesic(a, b) == 2 * Abs(a.pos - b.pos)

\* elevation_diff: Some(current - previous) when both elevations are known
ElevationDiff(prev, cur) ==
    IF IsSome(prev.elevation) /\ IsSome(cur.elevation)
    THEN Some(Unwrap(cur.elevation) - Unwrap(prev.elevation))
    ELSE None

\* the threshold test of the loop body: the elevation delta is compared signed
Keep(prev, cur, thr) ==
    \/ Geodesic(prev, cur) > DistanceThreshold
    \/ (IsSome(ElevationDiff(prev, cur)) /\ Unwrap(ElevationDiff(prev, cur)) > thr)

NextPreviousAlways(prev, cur, thr) == cur

\* previous_waypoint after one loop iteration
NextPrevious(prev, cur, thr) == IF Keep(prev, cur, thr) THEN cur ELSE prev

AccDistanceAlways(d, prev, cur, thr) == d + Geodesic(prev, cur)

\* info.distance after one loop iteration
AccDistance(d, prev, cur, thr) ==
    IF Keep(prev, cur, thr) THEN d + Geodesic(prev, cur) ELSE d

\* info.uphill after one loop iteration
AccUphill(u, prev, cur, thr) ==
    IF Keep(prev, cur, thr) /\ IsSome(ElevationDiff(prev, cur))
       /\ Unwrap(ElevationDiff(prev, cur)) >= 0
    THEN u + Unwrap(ElevationDiff(prev, cur)) ELSE u

AccDownhillPlus(d, prev, cur, thr) ==
    IF Keep(prev, cur, thr) /\ IsSome(ElevationDiff(prev, cur))
       /\ Unwrap(ElevationDiff(prev, cur)) < 0
    THEN d + Unwrap(ElevationDiff(prev, cur)) ELSE d

\* info.downhill after one loop iteration
AccDownhill(d, prev, cur, thr) ==
    IF Keep(prev, cur, thr) /\ IsSome(ElevationDiff(prev, cur))
       /\ Unwrap(ElevationDiff(prev, cur)) < 0
    THEN d - Unwrap(ElevationDiff(prev, cur)) ELSE d

\* elevation_shape after one loop iteration: the push precedes the test
PushShape(shape, d, cur) ==
    IF IsSome(cur.elevation)
    THEN Append(shape, <<d, Unwrap(cur.elevation)>>)
    ELSE shape

\* The waypoint loop of one segment as a function: the waypoints that
\* become `previous`, the first (taken by next().unwrap()) included.
RECURSIVE FilterFrom(_, _, _)
FilterFrom(prev, rest, thr) ==
    IF rest = <<>> THEN <<>>
    ELSE (IF Keep(prev, Head(rest), thr) THEN <<Head(rest)>> ELSE <<>>)
         \o FilterFrom(NextPrevious(prev, Head(rest), thr), Tail(rest), thr)

Filter(seg, thr) ==
    IF seg = <<>> THEN <<>> ELSE <<Head(seg)>> \o FilterFrom(Head(seg), Tail(seg), thr)

\* ------------------------------------------------------------ simplifier
\* Twice the area of the triangle a, b, c (points are <<x, y>>).
Area2(a, b, c) ==
    Abs(a[1] * (b[2] - c[2]) + b[1] * (c[2] - a[2]) + c[1] * (a[2] - b[2]))

RemoveAt(s, i) == SubSeq(s, 1, i - 1) \o SubSeq(s, i + 1, Len(s))

\* Twice the triangle area of interior point i with its two neighbours.
PointArea2(s, i) == Area2(s[i - 1], s[i], s[i + 1])

Interior(s) == 2 .. (Len(s) - 1)

\* The interior point of smallest area, the first of them on a tie.
MinInterior(s) ==
    CHOOSE i \in Interior(s) :
        \A j \in Interior(s) :
            \/ PointArea2(s, i) < PointArea2(s, j)
            \/ (PointArea2(s, i) = PointArea2(s, j) /\ i <= j)

RemovableEndpoint(s, eps) ==
    IF Len(s) >= 3 /\ PointArea2(s, MinInterior(s)) <= 2 * eps
    THEN Len(s)
    ELSE 0

\* The point the next elimination round removes, 0 when the round stops:
\* the minimum remaining area exceeds epsilon, or no interior point is left.
Removable(s, eps) ==
    IF Len(s) >= 3 /\ PointArea2(s, MinInterior(s)) <= 2 * eps
    THEN MinInterior(s)
    ELSE 0

\* Area-based point elimination (simplifyvw).
RECURSIVE Simplify(_, _)
Simplify(s, eps) ==
    IF Removable(s, eps) = 0 THEN s
    ELSE Simplify(RemoveAt(s, Removable(s, eps)), eps)

\* simpl_up: the sum of the non-negative deltas between consecutive samples
RECURSIVE SumUp(_)
SumUp(s) ==
    IF Len(s) < 2 THEN 0
    ELSE (IF s[2][2] - s[1][2] >= 0 THEN s[2][2] - s[1][2] ELSE 0) + SumUp(Tail(s))

\* simpl_down: the sum of the negated negative deltas
RECURSIVE SumDown(_)
SumDown(s) ==
    IF Len(s) < 2 THEN 0
    ELSE (IF s[2][2] - s[1][2] >= 0 THEN 0 ELSE -(s[2][2] - s[1][2])) + SumDown(Tail(s))

\* --------------------------------------------------------------- the run

Init ==
    /\ pc = "start"
    /\ elevation_threshold \in {ElevationThresholdRoot, ElevationThresholdCrate}
    /\ datetime = None
    /\ location = None
    /\ distance = 0
    /\ uphill = 0
    /\ downhill = 0
    /\ previous_waypoint = None
    /\ current_waypoint = None
    /\ elevation_shape = <<>>
    /\ simplified = <<>>
    /\ simpl_up = 0
    /\ simpl_down = 0
    /\ requests = 0
    /\ input = <<>>

\* The head of a segment body: the first waypoint becomes `previous`, the
\* start time is taken if still unset, and the location is looked up if
\* still unset.  The lookup is awaited inline; its outcome is the service's.
SegmentStart(w, outcome) ==
    /\ pc \in {"start", "scan"}
    /\ CountWaypoints(input) < MaxWaypoints
    /\ pc' = "scan"
    /\ previous_waypoint' = Some(w)
    /\ current_waypoint' = None
    /\ datetime' = IF datetime = None THEN w.time ELSE datetime
    /\ IF location = None
       THEN /\ requests' = requests + 1
            /\ location' = IF outcome = "found" THEN Some(w.pos) ELSE None
       ELSE UNCHANGED <<requests, location>>
    /\ input' = Append(input, <<w>>)
    /\ UNCHANGED <<elevation_threshold, distance, uphill, downhill,
                   elevation_shape, simplified, simpl_up, simpl_down>>

\* One iteration of `for current_waypoint in waypoints_iter`.
ScanStep(w) ==
    /\ pc = "scan"
    /\ CountWaypoints(input) < MaxWaypoints
    /\ LET prev == Unwrap(previous_waypoint)
           thr == elevation_threshold
           n == Len(input)
       IN /\ current_waypoint' = Some(w)
          /\ elevation_shape' = PushShape(elevation_shape, distance, w)
          /\ distance' = AccDistance(distance, prev, w, thr)
          /\ uphill' = AccUphill(uphill, prev, w, thr)
          /\ downhill' = AccDownhill(downhill, prev, w, thr)
          /\ previous_waypoint' = Some(NextPrevious(prev, w, thr))
          /\ input' = [input EXCEPT ![n] = Append(@, w)]
    /\ UNCHANGED <<pc, elevation_threshold, datetime, location, simplified,
                   simpl_up, simpl_down, requests>>

\* After the loops: simplify the shape, then walk the simplified line.
\* `simplifier_iter.next().unwrap()` panics on an empty line.
Finish(eps) ==
    /\ pc = "scan"
    /\ simplified' = Simplify(elevation_shape, eps)
    /\ IF simplified' = <<>>
       THEN /\ pc' = "panicked"
            /\ UNCHANGED <<simpl_up, simpl_down>>
       ELSE /\ pc' = "done"
            /\ simpl_up' = SumUp(simplified')
            /\ simpl_down' = SumDown(simplified')
    /\ UNCHANGED <<elevation_threshold, datetime, location, distance, uphill,
                   downhill, previous_waypoint, current_waypoint,
                   elevation_shape, requests, input>>

\* The statistics do not read the timestamps: the runs of Spec draw
\* waypoints of every elevation, without timestamps.
ReadSegmentStart ==
    \E p \in Positions, e \in Elevations, o \in Outcomes :
        SegmentStart(Waypoint(p, e, FALSE), o)

ReadWaypoint ==
    \E p \in Positions, e \in Elevations : ScanStep(Waypoint(p, e, FALSE))

FinishOpen == Finish(SimplifyEpsilon)

Next == ReadSegmentStart \/ ReadWaypoint \/ FinishOpen

Spec == Init /\ [][Next]_vars

\* --------------------------------------------- the run, with timestamps
\* The start time does not read the elevations: the runs of SpecTime draw
\* waypoints with and without a timestamp, all of them with an elevation.
ReadSegmentStartTimed ==
    \E p \in Positions, e \in TimedElevations, t \in BOOLEAN, o \in Outcomes :
        SegmentStart(Waypoint(p, e, t), o)

ReadWaypointTimed ==
    \E p \in Positions, e \in TimedElevations, t \in BOOLEAN :
        ScanStep(Waypoint(p, e, t))

NextTime == ReadSegmentStartTimed \/ ReadWaypointTimed \/ FinishOpen

SpecTime == Init /\ [][NextTime]_vars

\* ------------------------------------------- the simplifier on its own
Points == ProfileXs \X ProfileYs

Profiles ==
    {s \in UNION {[1 .. n -> Points] : n \in 0 .. MaxProfile} :
        \A i \in 1 .. (Len(s) - 1) : s[i][1] <= s[i + 1][1]}

InitSimplify ==
    /\ pc = "scan"
    /\ elevation_threshold = ElevationThresholdCrate
    /\ datetime = None
    /\ location = None
    /\ distance = 0
    /\ uphill = 0
    /\ downhill = 0
    /\ previous_waypoint = None
    /\ current_waypoint = None
    /\ elevation_shape \in Profiles
    /\ simplified = <<>>
    /\ simpl_up = 0
    /\ simpl_down = 0
    /\ requests = 0
    /\ input = <<>>

FinishAny == \E eps \in Epsilons : Finish(eps)

NextSimplify == FinishAny

SpecSimplify == InitSimplify /\ [][NextSimplify]_vars

\* ------------------------------------------------------ derived values

RECURSIVE Flatten(_)
Flatten(segs) == IF segs = <<>> THEN <<>> ELSE Head(segs) \o Flatten(Tail(segs))

\* The kept waypoints of every segment read so far.
Kept == [i \in DOMAIN input |-> Filter(input[i], elevation_threshold)]

\* The sum of the geodesic distances between consecutive waypoints of ws.
RECURSIVE PathLength(_)
PathLength(ws) ==
    IF Len(ws) < 2 THEN 0 ELSE Geodesic(ws[1], ws[2]) + PathLength(Tail(ws))

RECURSIVE SegmentsLength(_)
SegmentsLength(segs) ==
    IF segs = <<>> THEN 0 ELSE PathLength(Head(segs)) + SegmentsLength(Tail(segs))

\* The last action was a loop iteration on a candidate of the open segment.
ScanFired ==
    /\ pc = "scan" /\ pc' = "scan"
    /\ Len(input') = Len(input)
    /\ input' # input

KeptNow ==
    Len(Filter(Last(input'), elevation_threshold))
        = Len(Filter(Last(input), elevation_threshold)) + 1

\* The keep rule with the absolute elevation delta.
KeepAbsolute(prev, cur, thr) ==
    \/ Geodesic(prev, cur) > DistanceThreshold
    \/ (IsSome(ElevationDiff(prev, cur))
        /\ Abs(Unwrap(ElevationDiff(prev, cur))) > thr)

\* C1: every candidate after the first of a segment is kept if and only if
\* its distance from the previous kept waypoint exceeds the distance
\* threshold or the absolute elevation delta exceeds the elevation
\* threshold; a kept descent is added to downhill.
C1_KeepRuleAbsolute ==
    [][ScanFired =>
        LET prev == Unwrap(previous_waypoint)
            cur == Unwrap(current_waypoint')
        IN /\ KeptNow <=> KeepAbsolute(prev, cur, elevation_threshold)
           /\ (KeepAbsolute(prev, cur, elevation_threshold)
               /\ IsSome(ElevationDiff(prev, cur))
               /\ Unwrap(ElevationDiff(prev, cur)) < 0)
              => downhill' = downhill - Unwrap(ElevationDiff(prev, cur))]_vars

NoElevation(segs) == \A w \in {Flatten(segs)[i] : i \in DOMAIN Flatten(segs)} :
                        w.elevation = None

SingleWaypointSegments(segs) == \A i \in DOMAIN segs : Len(segs[i]) = 1

\* C2: on a structurally valid input in which no waypoint carries an
\* elevation, or every segment has a single waypoint, the run never aborts
\* and the summary has an empty profile, uphill = downhill = 0 and the
\* distance accumulated from the positions.
C2_NoElevationRunCompletes ==
    (input # <<>> /\ (NoElevation(input) \/ SingleWaypointSegments(input)))
    => /\ pc # "panicked"
       /\ pc = "done" => /\ elevation_shape = <<>>
                         /\ uphill = 0 /\ downhill = 0
                         /\ distance = SegmentsLength(Kept)

\* C3: at most one reverse-geocoding request is issued in a run; after a
\* failed attempt no later segment triggers another one.
C3_OneShotLookup == requests <= 1

\* The profile of the kept waypoints: one sample per kept waypoint with an
\* elevation, at the distance accumulated when that waypoint is reached.
RECURSIVE KeptSamples(_, _, _)
KeptSamples(prev, ws, d) ==
    IF ws = <<>> THEN <<>>
    ELSE LET w == Head(ws)
             dw == IF prev = None THEN d ELSE d + Geodesic(Unwrap(prev), w)
         IN (IF IsSome(w.elevation) THEN <<<<dw, Unwrap(w.elevation)>>>> ELSE <<>>)
            \o KeptSamples(Some(w), Tail(ws), dw)

RECURSIVE KeptProfile(_, _)
KeptProfile(segs, d) ==
    IF segs = <<>> THEN <<>>
    ELSE KeptSamples(None, Head(segs), d)
         \o KeptProfile(Tail(segs), d + PathLength(Head(segs)))

\* C4: at the end of the scan the raw profile holds, in stream order,
\* exactly one sample for every kept waypoint with a known elevation (the
\* first of a segment included) and none for a dropped waypoint, each at
\* the running distance and the elevation of its waypoint.
C4_ProfileOfKeptWaypoints ==
    pc = "done" => elevation_shape = KeptProfile(Kept, 0)

\* C5: at the end of a run with a non-empty profile, uphill - downhill is
\* the elevation of the last sample minus that of the first, for the raw
\* profile with the accumulated totals and for the simplified profile with
\* the recomputed totals.
C5_NetElevationBalance ==
    (pc = "done" /\ elevation_shape # <<>>)
    => /\ uphill - downhill = Last(elevation_shape)[2] - elevation_shape[1][2]
       /\ simpl_up - simpl_down = Last(simplified)[2] - simplified[1][2]

\* C6 as stated: the final distance is the sum of the geodesic distances
\* between consecutive kept waypoints of the single concatenated stream,
\* the pair across a segment boundary included.
C6_DistanceOverStream ==
    pc = "done" => distance = PathLength(Flatten(Kept))

\* C6 as amended: the distance is the sum, over the segments, of the
\* geodesic distances between consecutive kept waypoints of the segment;
\* the pair across a segment boundary adds nothing.
C6_DistancePerSegment == distance = SegmentsLength(Kept)

C6_Witness ==
    /\ pc = "done"
    /\ Len(input) = 2
    /\ Len(Kept[1]) = 2
    /\ distance > 0
    /\ Geodesic(Last(Kept[1]), Kept[2][1]) > 0

\* C7: filtering the waypoints the filter kept, with the same thresholds,
\* returns them unchanged.
C7_FilterIdempotent ==
    \A i \in DOMAIN input :
        Filter(Kept[i], elevation_threshold) = Kept[i]

C7_Witness ==
    \E i \in DOMAIN input : Len(Kept[i]) >= 2 /\ Len(Kept[i]) < Len(input[i])

RECURSIVE FirstTime(_)
FirstTime(ws) ==
    IF ws = <<>> THEN None
    ELSE IF IsSome(Head(ws).time) THEN Head(ws).time ELSE FirstTime(Tail(ws))

\* C8: the start time of the summary is the timestamp of the first kept
\* waypoint, in stream order, that has one; it is unset only if no kept
\* waypoint has a timestamp, and once set it never changes.
C8_StartTimeOfFirstKept ==
    /\ [](pc = "done" => datetime = FirstTime(Flatten(Kept)))
    /\ [][datetime # None => datetime' = datetime]_vars

RECURSIVE IsSubseq(_, _)
IsSubseq(a, b) ==
    IF a = <<>> THEN TRUE
    ELSE IF b = <<>> THEN FALSE
    ELSE IF Head(a) = Head(b) THEN IsSubseq(Tail(a), Tail(b))
    ELSE IsSubseq(a, Tail(b))

\* C9: the simplified profile of a non-empty profile is a subsequence of
\* it, has no more points, and keeps its first and last samples.
C9_SimplifyBounds ==
    (pc = "done" /\ elevation_shape # <<>>)
    => /\ IsSubseq(simplified, elevation_shape)
       /\ Len(simplified) <= Len(elevation_shape)
       /\ simplified # <<>>
       /\ simplified[1] = elevation_shape[1]
       /\ Last(simplified) = Last(elevation_shape)

C9_Witness ==
    /\ pc = "done"
    /\ Len(elevation_shape) = 3
    /\ Len(simplified) = 2

\* C10: distance, uphill and downhill are never negative and never
\* decrease; the x-coordinates of the raw profile are non-decreasing.
C10_MonotoneAccumulators ==
    /\ [](/\ distance >= 0 /\ uphill >= 0 /\ downhill >= 0
          /\ \A i \in 1 .. (Len(elevation_shape) - 1) :
                elevation_shape[i][1] <= elevation_shape[i + 1][1])
    /\ [][/\ distance' >= distance
          /\ uphill' >= uphill
          /\ downhill' >= downhill]_vars

C10_Witness ==
    /\ distance > 0 /\ uphill > 0 /\ downhill > 0
    /\ Len(elevation_shape) = 2
    /\ elevation_shape[1][1] = elevation_shape[2][1]

====
